---- MODULE Spec2Model ----
(***************************************************************************)
(* Model of brianstepnitz/my-datasci-playground, movies_by_release:        *)
(*   - fetch_releasedates.py: retry loop (discover_movies_between), range  *)
(*     bisection (discover_lte500pages_movies_between), concurrent page    *)
(*     collection (fetch_all_pages) and the slice loop                     *)
(*     (download_all_movie_releasedates_between);                          *)
(*   - process_releasedates.py: count_releasedates, calc_doublingdates;    *)
(*   - plot_days_to_double_movies.py: the forward fill of the sparse       *)
(*     series;                                                             *)
(*   - counts_by_releasedate.py: the rows it writes;                       *)
(*   - download_releasedates.py and fetch_movies.py: confirm_details,      *)
(*     write_page and write_all_pages of the sequential variant;           *)
(*   - days_to_double_movies.py: days_until_num_movies.                    *)
(* Dates are day numbers (an integer per calendar day), timedelta(days=1)  *)
(* is 1.                                                                   *)
(***************************************************************************)
EXTENDS Integers, Sequences, FiniteSets, TLC

VARIABLES
    \* ---- fetch pipeline (fetch_releasedates.py) ----
    start_date,        \* argument of download_all_movie_releasedates_between
    end_date,          \* argument of download_all_movie_releasedates_between
    retries,           \* argument: attempt budget, inf for math.inf
    pc,                \* position of the orchestration thread
    slice_start_date,  \* cursor of the slice loop
    slice_end_date,    \* end date returned by the range discoverer
    lte_end_date,      \* local end_date of discover_lte500pages_movies_between
    call,              \* the orchestration thread's discover_movies_between call
    discover_data,     \* page 1 of the current slice
    tasks,             \* fetch_all_pages: page -> state of the worker's call
    completed,         \* pages in the order their workers finished
    results,           \* the batch being built for the current slice
    batches,           \* the slices whose batch line 116 has reported so far
    \* ---- counting and doubling dates (process_releasedates.py) ----
    rows,              \* the release_date column of the csv rows read
    dpc,               \* position in count_releasedates / calc_doublingdates
    date_counter,      \* Counter: date -> count, 0 for an absent key
    nread,             \* rows consumed so far
    items,             \* sorted(date_counter.items())
    sum,               \* running total
    entries,           \* list of entries
    cursor,            \* trailing cursor (0-based, as in the source)
    k,                 \* items consumed so far by the for loop
    plotted,           \* rows left in dataframe_all after ffill and dropna
    csv_rows,          \* rows written by counts_by_releasedate.py main
    \* ---- sequential variant (download_releasedates.py, fetch_movies.py) ----
    variant,           \* which file's functions run
    min_runtime_mins,  \* filter argument, Unset for None
    one_of_genre_ids,  \* filter argument, a set of ids, NoGenres for None
    wpc,               \* position in write_all_pages / write_page
    result,            \* 1-based index of the for loop over data.results
    details,           \* confirm_details: the lookup of the current record
    verdict,           \* what confirm_details returned for the record
    written,           \* ids of the rows written to the csv file, in order
    pages_written,     \* pages handed to write_page, in order
    requested,         \* pages returned by discover_movies_between, in order
    \* ---- the query of discover_movies_between, in each of the three files ----
    qpc,               \* position in discover_movies_between
    params,            \* the params dict
    sent,              \* the params of every discover_movies call made, in order
    \* ---- days_until_num_movies (days_to_double_movies.py) ----
    today,             \* date.today()
    num_movies,        \* argument
    service,           \* end date -> total_results the service reports for it
    npc,               \* position in days_until_num_movies
    total_results,     \* data.total_results of the last response
    timediff,          \* local timediff, in days
    days               \* the timedelta returned, in days

fetchVars == <<start_date, end_date, retries, pc, slice_start_date,
               slice_end_date, lte_end_date, call, discover_data, tasks,
               completed, results, batches>>
dblVars == <<rows, dpc, date_counter, nread, items, sum, entries, cursor, k,
             plotted, csv_rows>>
seqVars == <<variant, min_runtime_mins, one_of_genre_ids, wpc, result, details,
             verdict, written, pages_written, requested>>
qryVars == <<qpc, params, sent>>
dayVars == <<today, num_movies, service, npc, total_results, timediff, days>>
vars == <<fetchVars, dblVars, seqVars, qryVars, dayVars>>

(***************************************************************************)
(* Bounds of the model.                                                    *)
(***************************************************************************)
MaxDay == 2
MaxRetries == 2
MaxPages == 4
MaxDate == 4
MaxRows == 5
MaxSeqPages == 2
MaxResults == 2
MaxToday == 7
MaxCount == 2

(***************************************************************************)
(* Program constants.                                                      *)
(***************************************************************************)
PageLimit == 500
inf == -1

Days == 0..MaxDay
RetryBudgets == (0..MaxRetries) \cup {inf}
\* total_pages values the service reports: small ones, and one above the limit
TotalPagesValues == (1..MaxPages) \cup {PageLimit + 1}

\* total_pages values the service reports on a page after the first: this
\* variant never reads them, the service is let repeat what page 1 reported
LaterPageTotals(first) == {first.total_pages}

\* Python's None for a page of data
None == [start |-> -1, end |-> -1, page |-> 0, total_pages |-> 0]

\* the response of discover_endpoint.discover_movies(params) to the query
\* (start, end, page), reporting tp total pages
Response(s, e, p, tp) == [start |-> s, end |-> e, page |-> p, total_pages |-> tp]

(***************************************************************************)
(* discover_movies_between: the retry loop (fetch_releasedates.py 208-253) *)
(***************************************************************************)
\* the service is let fail at most this many times within one call
FailureBound == MaxRetries + 1

\* params, data = None, attempts = 0; calls counts the remote invocations
\* made, failed those that threw, clears the cache_clear() calls, and waits
\* lists the sleeps taken, in seconds
NewCall(s, e, p) ==
    [start |-> s, end |-> e, page |-> p, attempts |-> 0, data |-> None,
     calls |-> 0, failed |-> 0, clears |-> 0, waits |-> <<>>]

\* the comparison without a case for the unbounded budget
BelowBudgetFinite(attempts, r) == attempts < r

\* attempts < retries, where retries may be math.inf
BelowBudget(attempts, r) == r = inf \/ attempts < r

\* the loop condition with <= for <: one attempt too many
LoopConditionOffByOne(c, r) == c.data = None /\ (r = inf \/ c.attempts <= r)

\* while (data is None and attempts < retries)
LoopCondition(c, r) == c.data = None /\ BelowBudget(c.attempts, r)

\* if retries < math.inf: attempts += 1
CountAttempt(attempts, r) == IF r # inf THEN attempts + 1 ELSE attempts

\* one iteration in which discover_endpoint.discover_movies(params) returns
AttemptReturns(c, r, tp) ==
    [c EXCEPT !.attempts = CountAttempt(@, r),
              !.calls = @ + 1,
              !.data = Response(c.start, c.end, c.page, tp)]

\* a sleep that doubles with every failure
BackoffDoubling(c) == 2 ^ c.failed

\* time.sleep(1)
Backoff(c) == 1

\* one iteration in which it throws: the error is logged, and if
\* attempts < retries the cache is cleared, data stays None and the thread
\* sleeps
AttemptThrows(c, r) ==
    LET n == CountAttempt(c.attempts, r)
    IN  [c EXCEPT !.attempts = n,
                  !.calls = @ + 1,
                  !.failed = @ + 1,
                  !.data = None,
                  !.clears = IF BelowBudget(n, r) THEN @ + 1 ELSE @,
                  !.waits = IF BelowBudget(n, r)
                            THEN Append(@, Backoff(c)) ELSE @]

\* if data is None: raise RuntimeError, else return data (after the loop)
RaisesRuntimeError(c, r) == c.data = None


(***************************************************************************)
(* discover_lte500pages_movies_between (fetch_releasedates.py 153-175)     *)
(***************************************************************************)
\* the halving that also steps back a day
HalveMinusOne(s, e) == s + ((e - s) \div 2) - 1

\* end_date = start_date + (timediff / 2): date + timedelta keeps whole
\* days only, so the half is rounded down
Halve(s, e) == s + ((e - s) \div 2)

\* while data.total_pages > 500
OverLimit(data) == data.total_pages > PageLimit

\* a range that includes the last page
PageRangeInclusive(total_pages) == 2..total_pages

(***************************************************************************)
(* fetch_all_pages (fetch_releasedates.py 255-281)                         *)
(***************************************************************************)
\* for page in range(2, total_pages)
PageRange(total_pages) == 2..(total_pages - 1)

\* the tasks list, in submission order
TaskOrder(total_pages) ==
    [i \in 1..Cardinality(PageRange(total_pages)) |-> i + 1]

\* the results taken as the workers complete (asyncio.as_completed)
GatherAsCompleted(ts, order, done) ==
    [i \in 1..Len(done) |-> ts[done[i]].c.data]

\* results = await asyncio.gather(*tasks): one result per task, in the order
\* of the tasks list
GatherResults(ts, order, done) ==
    [i \in 1..Len(order) |-> ts[order[i]].c.data]

\* a thread running discover_movies_between: the call and how it ended
NewTask(s, e, p) == [c |-> NewCall(s, e, p), st |-> "running"]

\* lines 245-253: how the call ends once the loop is left
Outcome(c, r) == IF RaisesRuntimeError(c, r) THEN "raised" ELSE "returned"

\* gather(..., return_exceptions=True): done once no worker runs
GatherDoneWithExceptions(ts) == \A p \in DOMAIN ts : ts[p].st # "running"

\* a wait that returns at the first completed future
GatherFirstCompleted(ts) == \E p \in DOMAIN ts : ts[p].st = "returned"

\* gather has every result
GatherDone(ts) == \A p \in DOMAIN ts : ts[p].st = "returned"

\* gather has an exception to raise
GatherFailed(ts) == \E p \in DOMAIN ts : ts[p].st = "raised"

NoTasks == [p \in {} |-> NewTask(0, 0, 0)]

(***************************************************************************)
(* The fetch pipeline as a state machine: one orchestration thread and the *)
(* worker threads of fetch_all_pages.                                      *)
(***************************************************************************)
FetchIdle ==
    /\ start_date = 0 /\ end_date = 0 /\ retries = 0
    /\ pc = "off"
    /\ slice_start_date = 0 /\ slice_end_date = 0 /\ lte_end_date = 0
    /\ call = NewTask(0, 0, 0)
    /\ discover_data = None
    /\ tasks = NoTasks
    /\ completed = <<>>
    /\ results = <<>>
    /\ batches = <<>>

QryIdle == qpc = "off" /\ params = <<>> /\ sent = <<>>
DayIdle ==
    /\ today = 0 /\ num_movies = 0 /\ service = <<>>
    /\ npc = "off" /\ total_results = 0 /\ timediff = 0 /\ days = 0

SeqIdle ==
    /\ variant = "off" /\ min_runtime_mins = 0 /\ one_of_genre_ids = {}
    /\ wpc = "off" /\ result = 0
    /\ details = [attempts |-> 0, calls |-> 0, failed |-> 0, runtime |-> 0,
                  genres |-> {}, found |-> FALSE]
    /\ verdict = "" /\ written = <<>> /\ pages_written = <<>>
    /\ requested = <<>>

DblIdle ==
    /\ rows = <<>> /\ dpc = "off"
    /\ date_counter = [d \in {} |-> 0]
    /\ nread = 0 /\ items = <<>> /\ sum = 0 /\ entries = <<>>
    /\ cursor = 0 /\ k = 0 /\ plotted = <<>> /\ csv_rows = <<>>

\* download_all_movie_releasedates_between is entered: slice_start_date =
\* start_date (line 91)
Init ==
    /\ start_date \in Days
    /\ end_date \in Days
    /\ retries \in RetryBudgets
    /\ pc = "loop"
    /\ slice_start_date = start_date
    /\ slice_end_date = start_date
    /\ lte_end_date = end_date
    /\ call = NewTask(0, 0, 0)
    /\ discover_data = None
    /\ tasks = NoTasks
    /\ completed = <<>>
    /\ results = <<>>
    /\ batches = <<>>
    /\ DblIdle
    /\ SeqIdle
    /\ QryIdle
    /\ DayIdle

inputs == <<start_date, end_date, retries>>

\* a slice loop that carries the bisected end date over to the next slice
LoopEnterLowered ==
    /\ pc = "loop"
    /\ slice_start_date < end_date
    /\ call' = NewTask(slice_start_date, lte_end_date, 1)
    /\ pc' = "discover"
    /\ UNCHANGED <<inputs, slice_start_date, slice_end_date, lte_end_date,
                   discover_data, tasks, completed, results, batches, dblVars,
                   seqVars, qryVars, dayVars>>

\* line 92, condition true: call discover_lte500pages_movies_between, which
\* issues its first page-1 query (lines 153-160)
LoopEnter ==
    /\ pc = "loop"
    /\ slice_start_date < end_date
    /\ lte_end_date' = end_date
    /\ call' = NewTask(slice_start_date, end_date, 1)
    /\ pc' = "discover"
    /\ UNCHANGED <<inputs, slice_start_date, slice_end_date, discover_data,
                   tasks, completed, results, batches, dblVars, seqVars, qryVars, dayVars>>

\* line 92, condition false: the coroutine returns
LoopExit ==
    /\ pc = "loop"
    /\ ~(slice_start_date < end_date)
    /\ pc' = "done"
    /\ UNCHANGED <<inputs, slice_start_date, slice_end_date, lte_end_date,
                   call, discover_data, tasks, completed, results, batches,
                   dblVars, seqVars, qryVars, dayVars>>

\* one iteration of the retry loop on the orchestration thread, the remote
\* call returning a page that reports tp total pages
MainAttemptReturns ==
    /\ pc = "discover"
    /\ LoopCondition(call.c, retries)
    /\ \E tp \in TotalPagesValues :
          call' = [call EXCEPT !.c = AttemptReturns(@, retries, tp)]
    /\ UNCHANGED <<inputs, pc, slice_start_date, slice_end_date, lte_end_date,
                   discover_data, tasks, completed, results, batches, dblVars, seqVars, qryVars, dayVars>>

\* one iteration of the retry loop on the orchestration thread, the remote
\* call throwing
MainAttemptThrows ==
    /\ pc = "discover"
    /\ LoopCondition(call.c, retries)
    /\ call.c.calls < FailureBound
    /\ call' = [call EXCEPT !.c = AttemptThrows(@, retries)]
    /\ UNCHANGED <<inputs, pc, slice_start_date, slice_end_date, lte_end_date,
                   discover_data, tasks, completed, results, batches, dblVars, seqVars, qryVars, dayVars>>

\* lines 245-251 on the orchestration thread: the RuntimeError is caught
\* nowhere and ends the run
MainCallRaises ==
    /\ pc = "discover"
    /\ call.st = "running"
    /\ ~LoopCondition(call.c, retries)
    /\ Outcome(call.c, retries) = "raised"
    /\ call' = [call EXCEPT !.st = "raised"]
    /\ pc' = "failed"
    /\ UNCHANGED <<inputs, slice_start_date, slice_end_date, lte_end_date,
                   discover_data, tasks, completed, results, batches,
                   dblVars, seqVars, qryVars, dayVars>>

\* line 253 on the orchestration thread: data = discover_movies_between(...)
MainCallReturns ==
    /\ pc = "discover"
    /\ call.st = "running"
    /\ ~LoopCondition(call.c, retries)
    /\ Outcome(call.c, retries) = "returned"
    /\ call' = [call EXCEPT !.st = "returned"]
    /\ discover_data' = call.c.data
    /\ pc' = "check"
    /\ UNCHANGED <<inputs, slice_start_date, slice_end_date, lte_end_date,
                   tasks, completed, results, batches, dblVars, seqVars, qryVars, dayVars>>

\* lines 162-173: over the limit, halve the span and query page 1 again
Bisect ==
    /\ pc = "check"
    /\ OverLimit(discover_data)
    /\ lte_end_date' = Halve(slice_start_date, lte_end_date)
    /\ call' = NewTask(slice_start_date, lte_end_date', 1)
    /\ pc' = "discover"
    /\ UNCHANGED <<inputs, slice_start_date, slice_end_date, discover_data,
                   tasks, completed, results, batches, dblVars, seqVars, qryVars, dayVars>>

\* line 175 and lines 93-103 with total_pages <= 1: the discoverer returns
\* (data, end_date), results = [discover_data], no page collection
SliceSinglePage ==
    /\ pc = "check"
    /\ ~OverLimit(discover_data)
    /\ ~(discover_data.total_pages > 1)
    /\ slice_end_date' = lte_end_date
    /\ results' = <<discover_data>>
    /\ pc' = "report"
    /\ UNCHANGED <<inputs, slice_start_date, lte_end_date, call,
                   discover_data, tasks, completed, batches, dblVars, seqVars, qryVars, dayVars>>

\* line 175 and lines 93-113, 264-278 with total_pages > 1: fetch_all_pages
\* submits one discover_movies_between per page of range(2, total_pages)
SliceSubmitPages ==
    /\ pc = "check"
    /\ ~OverLimit(discover_data)
    /\ discover_data.total_pages > 1
    /\ slice_end_date' = lte_end_date
    /\ results' = <<discover_data>>
    /\ tasks' = [p \in PageRange(discover_data.total_pages) |->
                    NewTask(slice_start_date, slice_end_date', p)]
    /\ completed' = <<>>
    /\ pc' = "gather"
    /\ UNCHANGED <<inputs, slice_start_date, lte_end_date, call,
                   discover_data, batches, dblVars, seqVars, qryVars, dayVars>>

workersRun == pc \in {"gather", "shutdown"}

\* one iteration of the retry loop on the worker of page p, the remote call
\* returning
WorkerAttemptReturns(p) ==
    /\ workersRun
    /\ tasks[p].st = "running"
    /\ LoopCondition(tasks[p].c, retries)
    /\ \E tp \in LaterPageTotals(discover_data) :
          tasks' = [tasks EXCEPT ![p].c = AttemptReturns(@, retries, tp)]
    /\ UNCHANGED <<inputs, pc, slice_start_date, slice_end_date, lte_end_date,
                   call, discover_data, completed, results, batches, dblVars, seqVars, qryVars, dayVars>>

\* one iteration of the retry loop on the worker of page p, the remote call
\* throwing
WorkerAttemptThrows(p) ==
    /\ workersRun
    /\ tasks[p].st = "running"
    /\ LoopCondition(tasks[p].c, retries)
    /\ tasks[p].c.calls < FailureBound
    /\ tasks' = [tasks EXCEPT ![p].c = AttemptThrows(@, retries)]
    /\ UNCHANGED <<inputs, pc, slice_start_date, slice_end_date, lte_end_date,
                   call, discover_data, completed, results, batches, dblVars, seqVars, qryVars, dayVars>>

\* lines 245-253 on the worker of page p: its future gets the page or the
\* RuntimeError
WorkerFinishes(p) ==
    /\ workersRun
    /\ tasks[p].st = "running"
    /\ ~LoopCondition(tasks[p].c, retries)
    /\ tasks' = [tasks EXCEPT ![p].st = Outcome(tasks[p].c, retries)]
    /\ completed' = Append(completed, p)
    /\ UNCHANGED <<inputs, pc, slice_start_date, slice_end_date, lte_end_date,
                   call, discover_data, results, batches, dblVars, seqVars, qryVars, dayVars>>

\* line 280-281 and 104: every future has a result; gather returns them and
\* results.extend appends them
GatherReturns ==
    /\ pc = "gather"
    /\ GatherDone(tasks)
    /\ results' = results \o GatherResults(tasks,
                      TaskOrder(discover_data.total_pages), completed)
    /\ pc' = "report"
    /\ UNCHANGED <<inputs, slice_start_date, slice_end_date, lte_end_date,
                   call, discover_data, tasks, completed, batches, dblVars, seqVars, qryVars, dayVars>>

\* line 280: a future has an exception; gather raises it in the coroutine,
\* which leaves the with block (line 265)
GatherRaises ==
    /\ pc = "gather"
    /\ GatherFailed(tasks)
    /\ pc' = "shutdown"
    /\ UNCHANGED <<inputs, slice_start_date, slice_end_date, lte_end_date,
                   call, discover_data, tasks, completed, results, batches,
                   dblVars, seqVars, qryVars, dayVars>>

\* an executor shut down with wait=False: the error leaves at once
ShutdownNoWait ==
    /\ pc = "shutdown"
    /\ pc' = "failed"
    /\ UNCHANGED <<inputs, slice_start_date, slice_end_date, lte_end_date,
                   call, discover_data, tasks, completed, results, batches,
                   dblVars, seqVars, qryVars, dayVars>>

\* an orchestrator that catches the RuntimeError of a page fetch and goes on
\* with what it has
ShutdownSwallows ==
    /\ pc = "shutdown"
    /\ \A p \in DOMAIN tasks : tasks[p].st # "running"
    /\ pc' = "report"
    /\ UNCHANGED <<inputs, slice_start_date, slice_end_date, lte_end_date,
                   call, discover_data, tasks, completed, results, batches,
                   dblVars, seqVars, qryVars, dayVars>>

\* line 265: ThreadPoolExecutor.__exit__ is shutdown(wait=True); once every
\* worker has finished the RuntimeError leaves fetch_all_pages and, caught
\* nowhere, ends the run
ShutdownJoins ==
    /\ pc = "shutdown"
    /\ \A p \in DOMAIN tasks : tasks[p].st # "running"
    /\ pc' = "failed"
    /\ UNCHANGED <<inputs, slice_start_date, slice_end_date, lte_end_date,
                   call, discover_data, tasks, completed, results, batches,
                   dblVars, seqVars, qryVars, dayVars>>

\* a slice loop that moves the cursor to the end of the slice, not past it
ReportNoAdvance ==
    /\ pc = "report"
    /\ batches' = Append(batches, [start |-> slice_start_date,
                                   end |-> slice_end_date])
    /\ slice_start_date' = slice_end_date
    /\ tasks' = NoTasks
    /\ completed' = <<>>
    /\ results' = <<>>
    /\ pc' = "loop"
    /\ UNCHANGED <<inputs, slice_end_date, lte_end_date, call, discover_data,
                   dblVars, seqVars, qryVars, dayVars>>

\* lines 116-118: the batch of the slice is complete and reported, the
\* cursor moves to the day after the slice; results is a fresh list in the
\* next iteration
Report ==
    /\ pc = "report"
    /\ batches' = Append(batches, [start |-> slice_start_date,
                                   end |-> slice_end_date])
    /\ slice_start_date' = slice_end_date + 1
    /\ tasks' = NoTasks
    /\ completed' = <<>>
    /\ results' = <<>>
    /\ pc' = "loop"
    /\ UNCHANGED <<inputs, slice_end_date, lte_end_date, call, discover_data,
                   dblVars, seqVars, qryVars, dayVars>>

Next ==
    \/ LoopEnter
    \/ LoopExit
    \/ MainAttemptReturns
    \/ MainAttemptThrows
    \/ MainCallRaises
    \/ MainCallReturns
    \/ Bisect
    \/ SliceSinglePage
    \/ SliceSubmitPages
    \/ \E p \in DOMAIN tasks : WorkerAttemptReturns(p)
    \/ \E p \in DOMAIN tasks : WorkerAttemptThrows(p)
    \/ \E p \in DOMAIN tasks : WorkerFinishes(p)
    \/ GatherReturns
    \/ GatherRaises
    \/ ShutdownJoins
    \/ Report

Spec == Init /\ [][Next]_vars

(***************************************************************************)
(* One call of discover_movies_between on its own (lines 222-253), under   *)
(* the assumption that the remote operation does not fail forever.         *)
(***************************************************************************)
InitRetry ==
    /\ start_date \in Days
    /\ end_date \in start_date..MaxDay
    /\ retries \in RetryBudgets
    /\ pc = "discover"
    /\ slice_start_date = start_date
    /\ slice_end_date = start_date
    /\ lte_end_date = end_date
    /\ call = NewTask(start_date, end_date, 1)
    /\ discover_data = None
    /\ tasks = NoTasks
    /\ completed = <<>>
    /\ results = <<>>
    /\ batches = <<>>
    /\ DblIdle
    /\ SeqIdle
    /\ QryIdle
    /\ DayIdle

NextRetry ==
    \/ MainAttemptReturns
    \/ MainAttemptThrows
    \/ MainCallRaises
    \/ MainCallReturns

\* the remote call, tried again and again, is not failing forever, and the
\* thread goes on running
SpecRetry ==
    /\ InitRetry
    /\ [][NextRetry]_vars
    /\ WF_vars(MainAttemptReturns)
    /\ WF_vars(MainCallRaises)
    /\ WF_vars(MainCallReturns)

(***************************************************************************)
(* discover_lte500pages_movies_between on its own (lines 153-175), called  *)
(* with any start_date <= end_date.                                        *)
(***************************************************************************)
NextDiscover ==
    \/ NextRetry
    \/ Bisect

SpecDiscover == InitRetry /\ [][NextDiscover]_vars

(***************************************************************************)
(* Properties of the fetch pipeline.                                       *)
(***************************************************************************)
\* every discover_movies_between call in progress or ended in this state
Calls == {call} \cup {tasks[p] : p \in DOMAIN tasks}

\* C1: with a finite budget N, a call of discover_movies_between invokes the
\* remote search at most N times, makes no invocation after a successful one
\* and returns that one's page, and raises RuntimeError exactly when N
\* invocations have failed (at once for N = 0); while budget remains, a
\* failure leaves the call running.
C1_RetryBudget ==
    retries # inf =>
        \A t \in Calls :
            /\ t.c.calls <= retries
            /\ t.c.calls = t.c.failed + (IF t.c.data # None THEN 1 ELSE 0)
            /\ t.c.data # None =>
                  /\ t.c.data.start = t.c.start
                  /\ t.c.data.end = t.c.end
                  /\ t.c.data.page = t.c.page
            /\ t.st = "raised" => t.c.failed = retries /\ t.c.data = None
            /\ t.st = "returned" => t.c.data # None /\ t.c.failed < retries
            /\ (t.c.data = None /\ t.c.failed < retries) => t.st = "running"

\* C1 witness: a call with a budget of two or more has raised after using it
\* up, and another call of the run returned after a failed attempt
C1_Witness ==
    /\ retries # inf /\ retries >= 2
    /\ \E t \in Calls : t.st = "raised" /\ t.c.calls = retries
    /\ \E t \in Calls : t.st = "returned" /\ t.c.failed >= 1

\* C2: the batch built for a slice holds every page 1..total_pages of the
\* slice's query exactly once.
C2_BatchHasEveryPage ==
    pc = "report" =>
        /\ Len(results) = discover_data.total_pages
        /\ \A n \in 1..discover_data.total_pages :
              Cardinality({i \in 1..Len(results) : results[i].page = n}) = 1

\* the days covered by the slices processed
Covered == UNION {b.start..b.end : b \in {batches[i] : i \in 1..Len(batches)}}

\* C3: when the slice loop completes on a range with start_date <= end_date,
\* the slices are consecutive and disjoint and cover [start_date, end_date],
\* end_date included.
C3_SlicesCoverRange ==
    (pc = "done" /\ start_date <= end_date) =>
        /\ \A i \in 1..Len(batches) :
              /\ batches[i].start <= batches[i].end
              /\ batches[i].start =
                    IF i = 1 THEN start_date ELSE batches[i - 1].end + 1
        /\ Covered = start_date..end_date

\* C4: when discover_lte500pages_movies_between(s, e) returns, with s <= e,
\* s <= effective end <= e and the page returned is the page-1 response for
\* [s, effective end], with total_pages <= 500.
C4_DiscoveredSlice ==
    pc \in {"gather", "shutdown", "report"} =>
        /\ slice_start_date <= slice_end_date
        /\ slice_end_date <= end_date
        /\ discover_data # None
        /\ discover_data.start = slice_start_date
        /\ discover_data.end = slice_end_date
        /\ discover_data.page = 1
        /\ discover_data.total_pages <= PageLimit
        /\ results[1] = discover_data

\* C4 witness: the discoverer returned a slice it had to shrink twice, and
\* the slice is the single day [s, s]
C4_Witness ==
    /\ pc = "report"
    /\ end_date - slice_start_date >= 2
    /\ slice_end_date = slice_start_date

\* C5: when the single-day range [start_date, start_date] is still over the
\* limit the discoverer fails instead of querying again: it never issues the
\* very query whose answer it has just found over the limit.
C5_UnshrinkableRangeFails ==
    ~ /\ pc = "discover"
      /\ OverLimit(discover_data)
      /\ call.c.start = discover_data.start
      /\ call.c.end = discover_data.end
      /\ call.c.start = call.c.end

\* C6: when a page fetch of a slice has exhausted its budget, fetch_all_pages
\* does not return: the pages other workers fetched never reach the batch
\* (results stays [page 1]) and no batch is reported for the slice.
C6_NoPartialBatch ==
    GatherFailed(tasks) =>
        /\ pc \in {"gather", "shutdown", "failed"}
        /\ results = <<discover_data>>
        /\ \A i \in 1..Len(batches) : batches[i].start # slice_start_date

\* C6 witness: the run has failed in page collection, the worker of page 3
\* raised and the worker of page 2 had returned its page before
C6_Witness ==
    /\ pc = "failed"
    /\ 3 \in DOMAIN tasks /\ tasks[3].st = "raised"
    /\ tasks[2].st = "returned"
    /\ completed = <<2, 3>>

\* the pages 2 .. total_pages - 1 fetched one after the other
SequentialFetch(s, e, first) ==
    [i \in 1..Cardinality(PageRange(first.total_pages)) |->
        Response(s, e, i + 1, first.total_pages)]

\* C7: whatever the order in which the workers complete, what fetch_all_pages
\* returns is, in content and order, what fetching its pages one after the
\* other returns: ascending page numbers.
C7_GatherOrder ==
    (pc = "report" /\ discover_data.total_pages > 1) =>
        /\ results = <<discover_data>> \o
              SequentialFetch(slice_start_date, slice_end_date, discover_data)
        /\ \A i \in 1..Len(results) : results[i].page = i

\* C7 witness: a batch is complete whose workers finished in descending page
\* order
C7_Witness ==
    /\ pc = "report"
    /\ completed = <<3, 2>>
    /\ Len(results) = 3

\* C12 as stated: every failed attempt of a call clears the cache and is
\* followed by a wait of one second.
C12_EveryFailureClears ==
    \A t \in Calls :
        /\ t.c.clears = t.c.failed
        /\ Len(t.c.waits) = t.c.failed
        /\ \A i \in 1..Len(t.c.waits) : t.c.waits[i] = 1

\* the failures of a call after which budget remained
FailuresWithBudget(c) ==
    IF retries = inf \/ c.failed < retries THEN c.failed ELSE retries - 1

\* C12 amended: every failed attempt that leaves budget (attempts < retries)
\* clears the cache once and is followed by one wait of one second, the same
\* on every failure, and every invocation after the first comes after such a
\* clear and wait; the failure that uses the budget up does neither.
C12_BackoffBeforeRetry ==
    \A t \in Calls :
        /\ t.c.clears = (IF t.c.failed = 0 THEN 0 ELSE FailuresWithBudget(t.c))
        /\ Len(t.c.waits) = t.c.clears
        /\ \A i \in 1..Len(t.c.waits) : t.c.waits[i] = 1
        /\ t.c.calls <= t.c.clears + 1
        /\ t.st = "raised" => t.c.clears < t.c.calls \/ t.c.calls = 0

\* C12 witness: a call has failed twice with budget left, cleared the cache
\* and slept each time, and returned on its third invocation
C12_Witness ==
    \E t \in Calls :
        /\ t.st = "returned"
        /\ t.c.failed = 2
        /\ t.c.clears = 2
        /\ t.c.waits = <<1, 1>>
        /\ t.c.calls = 3

\* C13: with retries = inf the call never raises the exhausted-retries
\* error, it retries after every failure, and if the remote operation does
\* not fail forever it eventually returns the first successful result.
C13_UnboundedRetries ==
    /\ [](retries = inf => call.st # "raised")
    /\ [](retries = inf /\ call.c.data = None => ENABLED MainAttemptReturns)
    /\ [](retries = inf /\ call.st = "returned" =>
            /\ call.c.data # None
            /\ call.c.calls = call.c.failed + 1
            /\ discover_data = call.c.data)
    /\ (retries = inf /\ call.st = "running") ~> (call.st = "returned")

\* C13 witness: with retries = inf the call has failed more often than any
\* finite budget of the model allows and then returned
C13_Witness ==
    /\ retries = inf
    /\ call.st = "returned"
    /\ call.c.failed = FailureBound

\* a step in which the orchestration thread issues a query
MainQueries == call'.c.calls > call.c.calls

\* a step in which the worker of page p issues a query
WorkerQueries(p) ==
    /\ p \in DOMAIN tasks'
    /\ tasks'[p].c.calls > tasks[p].c.calls

\* C14: slices are processed in strictly increasing date order and one at a
\* time: every query issued is for the slice at the cursor, which begins
\* after every reported slice; the orchestration thread issues no query
\* while a page fetch exists that has not finished; and a batch is reported
\* only when every page fetch of its slice has finished with a page.
C14_OneSliceAtATime ==
    /\ [](\A i \in 1..Len(batches) :
             /\ batches[i].start <= batches[i].end
             /\ batches[i].end < slice_start_date
             /\ i < Len(batches) => batches[i].end < batches[i + 1].start)
    /\ [](pc \in {"loop", "discover", "check", "done"} =>
             \A p \in DOMAIN tasks : tasks[p].st # "running")
    /\ [](pc = "report" =>
             /\ \A p \in DOMAIN tasks : tasks[p].st = "returned"
             /\ Len(results) = 1 + Cardinality(DOMAIN tasks)
             /\ \A i \in 1..Len(results) :
                   /\ results[i] # None
                   /\ results[i].start = slice_start_date
                   /\ results[i].end = slice_end_date)
    /\ [][/\ MainQueries =>
             /\ call.c.start = slice_start_date
             /\ call.c.page = 1
             /\ \A p \in DOMAIN tasks : tasks[p].st # "running"
          /\ \A p \in DOMAIN tasks : WorkerQueries(p) =>
                /\ tasks[p].c.start = slice_start_date
                /\ tasks[p].c.end = slice_end_date
                /\ call.st = "returned"
                /\ pc \in {"gather", "shutdown"}
          /\ Len(batches') > Len(batches) =>
                /\ pc = "report"
                /\ batches' = Append(batches, [start |-> slice_start_date,
                                               end |-> slice_end_date])]_vars

\* C14 witness: a page fetch of a later slice is querying after an earlier
\* slice, itself with page fetches, was reported
C14_Witness ==
    /\ Len(batches) >= 1
    /\ pc = "gather"
    /\ \E p \in DOMAIN tasks : tasks[p].st = "running" /\ tasks[p].c.calls >= 1

\* a call of discover_movies_between has raised the exhausted-retries error
Raised == \E t \in Calls : t.st = "raised"

\* C15: once a fetch has exhausted its retry budget, in range discovery or
\* in page collection, the run is aborted: the orchestration thread issues
\* no further query, no slice is reported, the cursor does not move, no new
\* page fetch is submitted, and the run ends failed, where nothing happens
\* any more.
C15_FailureAbortsRun ==
    /\ [](pc = "failed" =>
             /\ Raised
             /\ \A p \in DOMAIN tasks : tasks[p].st # "running")
    /\ [](pc = "done" => ~Raised)
    /\ [][Raised =>
             /\ Raised'
             /\ call' = call
             /\ batches' = batches
             /\ results' = results
             /\ slice_start_date' = slice_start_date
             /\ slice_end_date' = slice_end_date
             /\ DOMAIN tasks' = DOMAIN tasks
             /\ pc' \in {"gather", "shutdown", "failed"}]_vars
    /\ [][pc # "failed"]_vars

\* C15 witness: the run has ended failed by a page fetch of its second
\* slice, with days of the range not yet queried
C15_Witness ==
    /\ pc = "failed"
    /\ Len(batches) = 1
    /\ \E p \in DOMAIN tasks : tasks[p].st = "raised"
    /\ slice_end_date < end_date

\* C16: for every total_pages >= 2, fetch_all_pages submits one fetch for
\* each page p with 2 <= p <= total_pages - 1, each for its own page of the
\* slice, and for no other page (neither page 1 nor page total_pages), and
\* when it succeeds it returns exactly one result per submitted page.
C16_SubmittedPages ==
    pc \in {"gather", "shutdown", "report"} /\ discover_data.total_pages >= 2 =>
        /\ \A p \in 0..(discover_data.total_pages + 1) :
              p \in DOMAIN tasks <=> (2 <= p /\ p <= discover_data.total_pages - 1)
        /\ 1 \notin DOMAIN tasks
        /\ discover_data.total_pages \notin DOMAIN tasks
        /\ \A p \in DOMAIN tasks :
              /\ tasks[p].c.page = p
              /\ tasks[p].c.start = slice_start_date
              /\ tasks[p].c.end = slice_end_date
        /\ pc = "report" =>
              /\ Len(results) = 1 + (discover_data.total_pages - 2)
              /\ \A p \in DOMAIN tasks :
                    Cardinality({i \in 2..Len(results) : results[i].page = p}) = 1
              /\ \A i \in 2..Len(results) : results[i].page \in DOMAIN tasks

\* C16 witness: fetch_all_pages has returned for total_pages = 4, with
\* pages 2 and 3
C16_Witness ==
    /\ pc = "report"
    /\ discover_data.total_pages = 4
    /\ DOMAIN tasks = {2, 3}
    /\ Len(results) = 3

\* the discoverer is running: between its first query and its return
InDiscoverer == pc \in {"discover", "check"}

\* C20: throughout the bisection loop, entered with start_date <= end_date,
\* the start date never changes, the effective end date never grows, and
\* the effective end date is never before the start date; every query is
\* for the range from the start date to the effective end date.
C20_BisectionInvariant ==
    /\ [](InDiscoverer =>
             /\ slice_start_date = start_date
             /\ slice_start_date <= lte_end_date
             /\ lte_end_date <= end_date
             /\ call.c.start = slice_start_date
             /\ call.c.end = lte_end_date)
    /\ [][InDiscoverer /\ InDiscoverer' =>
             /\ slice_start_date' = slice_start_date
             /\ lte_end_date' <= lte_end_date]_vars

\* C20 witness: the loop has halved a span of two days or more down to the
\* start date and is still over the limit
C20_Witness ==
    /\ pc = "check"
    /\ OverLimit(discover_data)
    /\ lte_end_date = slice_start_date
    /\ end_date >= slice_start_date + 2
    /\ call.c.end = slice_start_date

(***************************************************************************)
(* count_releasedates and calc_doublingdates (process_releasedates.py)     *)
(***************************************************************************)
Dates == 0..MaxDate

\* a missing 'doubling_date' key of an entry; NaN / NaT in the dataframe
NaN == -1

\* date_counter[d] = 1, for += 1
IncrementAssigns(counter, d) ==
    [x \in DOMAIN counter \cup {d} |-> IF x = d THEN 1 ELSE counter[x]]

\* date_counter[d] += 1: a Counter has 0 for a missing key
Increment(counter, d) ==
    [x \in DOMAIN counter \cup {d} |->
        IF x = d
        THEN (IF d \in DOMAIN counter THEN counter[d] ELSE 0) + 1
        ELSE counter[x]]

\* sorted(date_counter.items()): the (date, count) pairs, ascending by date
SortedItems(counter) ==
    [i \in 1..Cardinality(DOMAIN counter) |->
        LET d == CHOOSE x \in DOMAIN counter :
                    Cardinality({y \in DOMAIN counter : y < x}) = i - 1
        IN  <<d, counter[d]>>]

\* entry = {'release_date': item[0], 'count': count, 'sum': sum}
NewEntry(item, total) ==
    [release_date |-> item[1], count |-> item[2], sum |-> total,
     doubling_date |-> NaN]

\* the while condition without the factor 2
WhileConditionNoDoubling(es, cur) ==
    /\ cur + 1 <= Len(es)
    /\ es[Len(es)].sum >= es[cur + 1].sum

\* the while condition with > for >=
WhileConditionStrict(es, cur) ==
    /\ cur + 1 <= Len(es)
    /\ es[Len(es)].sum > 2 * es[cur + 1].sum

\* while entry['sum'] >= 2 * entries[cursor]['sum'], entry being the entry
\* just appended; the cursor is a 0-based index
WhileCondition(es, cur) ==
    /\ cur + 1 <= Len(es)
    /\ es[Len(es)].sum >= 2 * es[cur + 1].sum

\* the date assigned to the entry just appended, not to the one at the cursor
SetDoublingDateOfLast(es, cur) ==
    [es EXCEPT ![Len(es)].doubling_date = es[Len(es)].release_date]

\* entries[cursor]['doubling_date'] = entry['release_date']
SetDoublingDate(es, cur) ==
    [es EXCEPT ![cur + 1].doubling_date = es[Len(es)].release_date]

(***************************************************************************)
(* counts_by_releasedate.py main, lines 19-24                              *)
(***************************************************************************)
\* for item in sorted(date_counter.items()): count = item[1];
\* csvwriter.writerow([item[0], item[1], sum]); sum += count
RECURSIVE WriteCountRows(_, _)
WriteCountRows(its, total) ==
    IF its = <<>>
    THEN <<>>
    ELSE <<[release_date |-> its[1][1], count |-> its[1][2], sum |-> total]>>
         \o WriteCountRows(Tail(its), total + its[1][2])

(***************************************************************************)
(* plot_days_to_double_movies.py main, lines 8-18                          *)
(***************************************************************************)
\* pandas.date_range(release_date.min(), release_date.max())
AllDates(es) == es[1].release_date .. es[Len(es)].release_date

\* pandas.merge(dataframe_all, dataframe, how='left'): one row per calendar
\* day, NaN in every other column of a day that has no entry
Merge(es) ==
    [i \in 1..Cardinality(AllDates(es)) |->
        LET d == es[1].release_date + i - 1
            at == {j \in 1..Len(es) : es[j].release_date = d}
        IN  IF at = {}
            THEN [release_date |-> d, count |-> NaN, sum |-> NaN,
                  doubling_date |-> NaN]
            ELSE es[CHOOSE j \in at : TRUE]]

\* ffill of one column with limit_area='inside': a NaN takes the last valid
\* value above it if the column also has a valid value below it
FfillInside(col) ==
    [i \in 1..Len(col) |->
        IF /\ col[i] = NaN
           /\ \E a \in 1..(i - 1) : col[a] # NaN
           /\ \E b \in (i + 1)..Len(col) : col[b] # NaN
        THEN col[CHOOSE a \in 1..(i - 1) :
                    /\ col[a] # NaN
                    /\ \A c \in (a + 1)..(i - 1) : col[c] = NaN]
        ELSE col[i]]

\* dataframe_all.ffill(inplace=True, limit_area='inside'), column by column
Ffill(frame) ==
    LET cnt == FfillInside([i \in 1..Len(frame) |-> frame[i].count])
        sm  == FfillInside([i \in 1..Len(frame) |-> frame[i].sum])
        dd  == FfillInside([i \in 1..Len(frame) |-> frame[i].doubling_date])
    IN  [i \in 1..Len(frame) |->
            [release_date |-> frame[i].release_date, count |-> cnt[i],
             sum |-> sm[i], doubling_date |-> dd[i]]]

\* dataframe_all.dropna(): the rows without a NaN
DropNa(frame) ==
    SelectSeq(frame, LAMBDA r : /\ r.count # NaN /\ r.sum # NaN
                                /\ r.doubling_date # NaN)

(***************************************************************************)
(* Counting, doubling dates and plotting as a state machine.               *)
(***************************************************************************)
\* the csv rows read, any order, any dates
RowSeqs == UNION {[1..n -> Dates] : n \in 0..MaxRows}

InitDbl ==
    /\ FetchIdle
    /\ SeqIdle
    /\ QryIdle
    /\ DayIdle
    /\ rows \in RowSeqs
    /\ dpc = "count"
    /\ date_counter = [d \in {} |-> 0]
    /\ nread = 0
    /\ items = <<>>
    /\ sum = 0
    /\ entries = <<>>
    /\ cursor = 0
    /\ k = 0
    /\ plotted = <<>>
    /\ csv_rows = <<>>

\* count_releasedates lines 13-15: one row
CountRow ==
    /\ dpc = "count"
    /\ nread < Len(rows)
    /\ date_counter' = Increment(date_counter, rows[nread + 1])
    /\ nread' = nread + 1
    /\ UNCHANGED <<rows, dpc, items, sum, entries, cursor, k, plotted, csv_rows,
                   fetchVars, seqVars, qryVars, dayVars>>

\* count_releasedates line 17, calc_doublingdates lines 20-23: the counter
\* is returned and its sorted items are about to be scanned
CountDone ==
    /\ dpc = "count"
    /\ nread = Len(rows)
    /\ items' = SortedItems(date_counter)
    /\ sum' = 0
    /\ entries' = <<>>
    /\ cursor' = 0
    /\ k' = 0
    /\ dpc' = "for"
    /\ UNCHANGED <<rows, date_counter, nread, plotted, csv_rows,
                   fetchVars, seqVars, qryVars, dayVars>>

\* an outer loop that starts its scan from the first entry every time
ForNextRescan ==
    /\ dpc = "for"
    /\ k < Len(items)
    /\ sum' = sum + items[k + 1][2]
    /\ entries' = Append(entries, NewEntry(items[k + 1], sum'))
    /\ k' = k + 1
    /\ cursor' = 0
    /\ dpc' = "while"
    /\ UNCHANGED <<rows, date_counter, nread, items, plotted, csv_rows,
                   fetchVars, seqVars, qryVars, dayVars>>

\* calc_doublingdates lines 23-27: the next item is added to the sum and
\* appended as an entry
ForNext ==
    /\ dpc = "for"
    /\ k < Len(items)
    /\ sum' = sum + items[k + 1][2]
    /\ entries' = Append(entries, NewEntry(items[k + 1], sum'))
    /\ k' = k + 1
    /\ dpc' = "while"
    /\ UNCHANGED <<rows, date_counter, nread, items, cursor, plotted, csv_rows,
                   fetchVars, seqVars, qryVars, dayVars>>

\* calc_doublingdates lines 28-30: the entry at the cursor has doubled
WhileStep ==
    /\ dpc = "while"
    /\ WhileCondition(entries, cursor)
    /\ entries' = SetDoublingDate(entries, cursor)
    /\ cursor' = cursor + 1
    /\ UNCHANGED <<rows, dpc, date_counter, nread, items, sum, k, plotted, csv_rows,
                   fetchVars, seqVars, qryVars, dayVars>>

\* calc_doublingdates line 28, condition false
WhileExit ==
    /\ dpc = "while"
    /\ ~WhileCondition(entries, cursor)
    /\ dpc' = "for"
    /\ UNCHANGED <<rows, date_counter, nread, items, sum, entries, cursor, k,
                   plotted, csv_rows,
                   fetchVars, seqVars, qryVars, dayVars>>

\* calc_doublingdates line 32 and write_entries: the entries are returned
\* and written to counts_by_releasedate.csv
ForDone ==
    /\ dpc = "for"
    /\ k = Len(items)
    /\ dpc' = "written"
    /\ UNCHANGED <<rows, date_counter, nread, items, sum, entries, cursor, k,
                   plotted, csv_rows,
                   fetchVars, seqVars, qryVars, dayVars>>

\* plot_days_to_double_movies.py lines 8-18 on the file written
Plot ==
    /\ dpc = "written"
    /\ Len(entries) > 0
    /\ plotted' = DropNa(Ffill(Merge(entries)))
    /\ dpc' = "plotted"
    /\ UNCHANGED <<rows, date_counter, nread, items, sum, entries, cursor, k, csv_rows,
                   fetchVars, seqVars, qryVars, dayVars>>

\* plot_days_to_double_movies.py line 13 on a file without rows: min() and
\* max() are NaT and date_range raises
PlotEmpty ==
    /\ dpc = "written"
    /\ Len(entries) = 0
    /\ dpc' = "plot_failed"
    /\ UNCHANGED <<rows, date_counter, nread, items, sum, entries, cursor, k,
                   plotted, csv_rows,
                   fetchVars, seqVars, qryVars, dayVars>>

\* counts_by_releasedate.py main, lines 19-24, on the same csv rows: its
\* counting loop (lines 8-16) is the loop of count_releasedates, so it holds
\* the same date_counter
CountsMain ==
    /\ dpc = "written"
    /\ csv_rows' = WriteCountRows(SortedItems(date_counter), 0)
    /\ dpc' = "counts_written"
    /\ UNCHANGED <<rows, date_counter, nread, items, sum, entries, cursor, k,
                   plotted, fetchVars, seqVars, qryVars, dayVars>>

NextDbl ==
    \/ CountsMain
    \/ CountRow
    \/ CountDone
    \/ ForNext
    \/ WhileStep
    \/ WhileExit
    \/ ForDone
    \/ Plot
    \/ PlotEmpty

SpecDoubling == InitDbl /\ [][NextDbl]_vars

(***************************************************************************)
(* Properties of counting and of the doubling dates.                       *)
(***************************************************************************)
\* calc_doublingdates has returned
Returned == dpc \in {"written", "plotted", "plot_failed", "counts_written"}

\* the distinct dates among the rows read
DatesPresent == {rows[n] : n \in 1..Len(rows)}

\* the number of rows read that have date d
RecordsOn(d) == Cardinality({n \in 1..Len(rows) : rows[n] = d})

\* the number of rows read whose date is d or earlier
RecordsUpTo(d) == Cardinality({n \in 1..Len(rows) : rows[n] <= d})

RECURSIVE SumOfCounts(_)
SumOfCounts(its) ==
    IF its = <<>> THEN 0 ELSE its[1][2] + SumOfCounts(Tail(its))

\* C8: in the output of calc_doublingdates (all counts >= 1), entry i has a
\* doubling_date exactly when the cumulative count of some later date is at
\* least twice the cumulative count of entry i's date, and then it is the
\* earliest such date.
C8_EarliestDoubling ==
    Returned =>
        \A i \in 1..Len(entries) :
            LET d == entries[i].release_date
                later == {e \in DatesPresent :
                             e > d /\ RecordsUpTo(e) >= 2 * RecordsUpTo(d)}
            IN  IF later = {}
                THEN entries[i].doubling_date = NaN
                ELSE /\ entries[i].doubling_date \in later
                     /\ \A e \in later : entries[i].doubling_date <= e

\* C8 witness: the counts 1, 1, 2 on three dates (the scenario 5, 5, 10
\* scaled): the first two entries double on the next date, the third never
C8_Witness ==
    /\ dpc = "written"
    /\ Len(entries) = 3
    /\ entries[1].count = 1 /\ entries[2].count = 1 /\ entries[3].count = 2
    /\ entries[1].doubling_date = entries[2].release_date
    /\ entries[2].doubling_date = entries[3].release_date
    /\ entries[3].doubling_date = NaN
    /\ entries[3].release_date > entries[2].release_date + 1

\* C9: for consecutive present dates d_i < d_(i+1) where d_i has a doubling
\* date, every calendar day strictly between them is plotted with the
\* doubling date computed for d_i.
C9_ForwardFill ==
    dpc = "plotted" =>
        \A i \in 1..(Len(entries) - 1) :
            entries[i].doubling_date # NaN =>
                \A d \in (entries[i].release_date + 1) ..
                         (entries[i + 1].release_date - 1) :
                    \E n \in 1..Len(plotted) :
                        /\ plotted[n].release_date = d
                        /\ plotted[n].doubling_date = entries[i].doubling_date

\* C10: the daily counter yields one entry per distinct date among the
\* records, in strictly ascending date order, with the number of records of
\* that date as count; the counts add up to the number of records.
C10_DailyCounts ==
    dpc # "count" =>
        /\ {items[i][1] : i \in 1..Len(items)} = DatesPresent
        /\ Len(items) = Cardinality(DatesPresent)
        /\ \A i \in 1..Len(items) : items[i][2] = RecordsOn(items[i][1])
        /\ \A i \in 1..(Len(items) - 1) : items[i][1] < items[i + 1][1]
        /\ SumOfCounts(items) = Len(rows)
        /\ Returned =>
              /\ Len(entries) = Len(items)
              /\ \A i \in 1..Len(items) :
                    /\ entries[i].release_date = items[i][1]
                    /\ entries[i].count = items[i][2]

\* C10 witness: rows read out of date order, several of them on one date,
\* counted into two entries
C10_Witness ==
    /\ dpc = "written"
    /\ Len(rows) >= 4
    /\ rows[1] > rows[2]
    /\ rows[3] = rows[1]
    /\ Len(entries) = 2
    /\ entries[2].count >= 2

\* the (date, count, sum) columns of the entries of calc_doublingdates
EntryRows ==
    [i \in 1..Len(entries) |->
        [release_date |-> entries[i].release_date, count |-> entries[i].count,
         sum |-> entries[i].sum]]

\* C11: in both producers the sum emitted for a date is the running total of
\* the counts up to and including that date, so it never decreases and the
\* last one is the number of records; both emit the same (date, count, sum)
\* rows for the same input.
C11_CumulativeSums ==
    dpc = "counts_written" =>
        /\ \A i \in 1..Len(entries) :
              entries[i].sum = RecordsUpTo(entries[i].release_date)
        /\ \A i \in 1..Len(csv_rows) :
              csv_rows[i].sum = RecordsUpTo(csv_rows[i].release_date)
        /\ \A i \in 1..(Len(csv_rows) - 1) : csv_rows[i].sum <= csv_rows[i + 1].sum
        /\ Len(csv_rows) > 0 => csv_rows[Len(csv_rows)].sum = Len(rows)
        /\ csv_rows = EntryRows

(***************************************************************************)
(* The sequential variant: confirm_details, write_page and write_all_pages *)
(* of download_releasedates.py (158-298) and of fetch_movies.py (113-195). *)
(***************************************************************************)
Variants == {"download_releasedates", "fetch_movies"}

\* None as the value of an optional argument
Unset == -1
NoGenres == {Unset}

\* runtimes and genre lists a movie of the model can have, and the values
\* of the two filter arguments
Runtimes == {0, 1}
MinRuntimes == {Unset} \cup Runtimes
GenreFilters == {NoGenres, {}, {1}}
GenreLists == {{}, {1}, {2}}

\* Python truthiness of the two filter arguments: None, 0 and [] are falsy
TruthyInt(x) == x # Unset /\ x # 0
TruthyList(x) == x # NoGenres /\ x # {}

\* the runtime filter is applied: `min_runtime_mins is not None`
\* (download_releasedates.py 183, 210), `min_runtime_mins` (fetch_movies.py
\* 127, 147)
ChecksRuntime(v, min) ==
    IF v = "download_releasedates" THEN min # Unset ELSE TruthyInt(min)

\* the genre filter is applied: `one_of_genre_ids is not None`
\* (download_releasedates.py 183, 212), `one_of_genre_ids` (fetch_movies.py
\* 127, 149)
ChecksGenres(v, ids) ==
    IF v = "download_releasedates" THEN ids # NoGenres ELSE TruthyList(ids)

\* the condition of the outer if of confirm_details
NeedsLookup(v, min, ids) == ChecksRuntime(v, min) \/ ChecksGenres(v, ids)

\* details = None, attempts = 0; calls counts the remote lookups made and
\* failed those that threw
NewLookup ==
    [attempts |-> 0, calls |-> 0, failed |-> 0, found |-> FALSE,
     runtime |-> 0, genres |-> {}]

\* while (details is None and attempts < retries)
LookupLoop(det, r) == ~det.found /\ BelowBudget(det.attempts, r)

\* one iteration in which movie_endpoint.details returns a movie of the
\* given runtime and genres
LookupReturns(det, r, rt, gs) ==
    [det EXCEPT !.attempts = CountAttempt(@, r),
                !.calls = @ + 1,
                !.found = TRUE,
                !.runtime = rt,
                !.genres = gs]

\* one iteration in which movie_endpoint.details throws
LookupThrows(det, r) ==
    [det EXCEPT !.attempts = CountAttempt(@, r),
                !.calls = @ + 1,
                !.failed = @ + 1]

\* a confirm_details that lets a record through when its lookup failed
ConfirmedLenient(v, det, min, ids) ==
    IF ~det.found
    THEN TRUE
    ELSE IF ChecksRuntime(v, min) /\ det.runtime < min
    THEN FALSE
    ELSE IF ChecksGenres(v, ids)
    THEN det.genres \cap ids # {}
    ELSE TRUE

\* the part of confirm_details after the retry loop: False when details is
\* None, False when the runtime is below the minimum, then the genre loop
Confirmed(v, det, min, ids) ==
    IF ~det.found
    THEN FALSE
    ELSE IF ChecksRuntime(v, min) /\ det.runtime < min
    THEN FALSE
    ELSE IF ChecksGenres(v, ids)
    THEN det.genres \cap ids # {}
    ELSE TRUE

\* data.results: the ids of the records of a page
Results(data) ==
    IF data.page > data.total_pages
    THEN <<>>
    ELSE [i \in 1..MaxResults |-> (data.page - 1) * MaxResults + i]

\* a loop head that leaves the last page out
EntersWritePageStrict(v, data) == data.page < data.total_pages

\* the head of the loop of write_all_pages: download_releasedates.py writes
\* the page while page <= total_pages (278); fetch_movies.py writes it in
\* the loop while page < total_pages (187) and after the loop otherwise (195)
EntersWritePage(v, data) ==
    IF v = "download_releasedates"
    THEN data.page <= data.total_pages
    ELSE TRUE

\* after write_page: another page is requested, download_releasedates.py
\* 289, fetch_movies.py 187-191
RequestsNextPage(v, data) == data.page < data.total_pages

\* write_all_pages is entered with the first page of a query and the
\* filters
InitSeq ==
    /\ start_date = 0 /\ end_date = 0
    /\ retries \in RetryBudgets
    /\ pc = "off"
    /\ slice_start_date = 0 /\ slice_end_date = 0 /\ lte_end_date = 0
    /\ call = NewTask(0, 0, 0)
    /\ \E tp \in 0..MaxSeqPages : discover_data = Response(0, 0, 1, tp)
    /\ tasks = NoTasks
    /\ completed = <<>>
    /\ results = <<>>
    /\ batches = <<>>
    /\ DblIdle
    /\ QryIdle
    /\ DayIdle
    /\ variant \in Variants
    /\ min_runtime_mins \in MinRuntimes
    /\ one_of_genre_ids \in GenreFilters
    /\ wpc = "while"
    /\ result = 0
    /\ details = NewLookup
    /\ verdict = ""
    /\ written = <<>>
    /\ pages_written = <<>>
    /\ requested = <<>>

seqInputs == <<start_date, end_date, retries, variant, min_runtime_mins,
               one_of_genre_ids>>
seqRest == <<pc, slice_start_date, slice_end_date, lte_end_date, tasks,
             completed, results, batches, dblVars, qryVars, dayVars>>

\* write_page is called with the current page
WritePageEnter ==
    /\ wpc = "while"
    /\ EntersWritePage(variant, discover_data)
    /\ pages_written' = Append(pages_written, discover_data.page)
    /\ result' = 1
    /\ wpc' = "for"
    /\ UNCHANGED <<seqInputs, seqRest, call, discover_data, details, verdict,
                   written, requested>>

\* download_releasedates.py 278, condition false: write_all_pages returns
WhileFalse ==
    /\ wpc = "while"
    /\ ~EntersWritePage(variant, discover_data)
    /\ wpc' = "done"
    /\ UNCHANGED <<seqInputs, seqRest, call, discover_data, result, details,
                   verdict, written, pages_written, requested>>

\* confirm_details with the outer if false: return True, no lookup
ConfirmNoLookup ==
    /\ wpc = "for"
    /\ result <= Len(Results(discover_data))
    /\ ~NeedsLookup(variant, min_runtime_mins, one_of_genre_ids)
    /\ details' = NewLookup
    /\ verdict' = "True"
    /\ wpc' = "returned"
    /\ UNCHANGED <<seqInputs, seqRest, call, discover_data, result, written,
                   pages_written, requested>>

\* confirm_details with the outer if true: details = None, attempts = 0
LookupStart ==
    /\ wpc = "for"
    /\ result <= Len(Results(discover_data))
    /\ NeedsLookup(variant, min_runtime_mins, one_of_genre_ids)
    /\ details' = NewLookup
    /\ verdict' = ""
    /\ wpc' = "lookup"
    /\ UNCHANGED <<seqInputs, seqRest, call, discover_data, result, written,
                   pages_written, requested>>

\* one iteration of the lookup loop, movie_endpoint.details returning
LookupAttemptReturns ==
    /\ wpc = "lookup"
    /\ LookupLoop(details, retries)
    /\ \E rt \in Runtimes, gs \in GenreLists :
          details' = LookupReturns(details, retries, rt, gs)
    /\ UNCHANGED <<seqInputs, seqRest, call, discover_data, wpc, result,
                   verdict, written, pages_written, requested>>

\* one iteration of the lookup loop, movie_endpoint.details throwing
LookupAttemptThrows ==
    /\ wpc = "lookup"
    /\ LookupLoop(details, retries)
    /\ details.calls < FailureBound
    /\ details' = LookupThrows(details, retries)
    /\ UNCHANGED <<seqInputs, seqRest, call, discover_data, wpc, result,
                   verdict, written, pages_written, requested>>

\* the lookup loop is left: confirm_details returns True or False
ConfirmReturns ==
    /\ wpc = "lookup"
    /\ ~LookupLoop(details, retries)
    /\ verdict' = IF Confirmed(variant, details, min_runtime_mins,
                               one_of_genre_ids)
                  THEN "True" ELSE "False"
    /\ wpc' = "returned"
    /\ UNCHANGED <<seqInputs, seqRest, call, discover_data, result, details,
                   written, pages_written, requested>>

\* write_page, confirm_details returned True: the row is written; the
\* locals of confirm_details are gone
WriteRow ==
    /\ wpc = "returned"
    /\ verdict = "True"
    /\ written' = Append(written, Results(discover_data)[result])
    /\ result' = result + 1
    /\ wpc' = "for"
    /\ details' = NewLookup
    /\ verdict' = ""
    /\ UNCHANGED <<seqInputs, seqRest, call, discover_data, pages_written,
                   requested>>

\* write_page, confirm_details returned False: on to the next record
SkipRow ==
    /\ wpc = "returned"
    /\ verdict = "False"
    /\ result' = result + 1
    /\ wpc' = "for"
    /\ details' = NewLookup
    /\ verdict' = ""
    /\ UNCHANGED <<seqInputs, seqRest, call, discover_data, written,
                   pages_written, requested>>

\* write_page has returned and a further page exists:
\* discover_movies_between is called for page + 1
PageDoneRequest ==
    /\ wpc = "for"
    /\ result > Len(Results(discover_data))
    /\ RequestsNextPage(variant, discover_data)
    /\ call' = NewTask(start_date, end_date, discover_data.page + 1)
    /\ wpc' = "next_page"
    /\ UNCHANGED <<seqInputs, seqRest, discover_data, result, details, verdict,
                   written, pages_written, requested>>

\* write_page has returned for the last page: break (download_releasedates
\* 298), end of the function (fetch_movies 195)
PageDoneReturn ==
    /\ wpc = "for"
    /\ result > Len(Results(discover_data))
    /\ ~RequestsNextPage(variant, discover_data)
    /\ wpc' = "done"
    /\ UNCHANGED <<seqInputs, seqRest, call, discover_data, result, details,
                   verdict, written, pages_written, requested>>

\* one iteration of the retry loop of discover_movies_between, the remote
\* call returning the page asked for
NextPageAttemptReturns ==
    /\ wpc = "next_page"
    /\ LoopCondition(call.c, retries)
    /\ \E tp \in LaterPageTotals(discover_data) :
          call' = [call EXCEPT !.c = AttemptReturns(@, retries, tp)]
    /\ UNCHANGED <<seqInputs, seqRest, discover_data, wpc, result, details,
                   verdict, written, pages_written, requested>>

\* one iteration of the retry loop of discover_movies_between, the remote
\* call throwing
NextPageAttemptThrows ==
    /\ wpc = "next_page"
    /\ LoopCondition(call.c, retries)
    /\ call.c.calls < FailureBound
    /\ call' = [call EXCEPT !.c = AttemptThrows(@, retries)]
    /\ UNCHANGED <<seqInputs, seqRest, discover_data, wpc, result, details,
                   verdict, written, pages_written, requested>>

\* a failure that removes what was written to the file of the slice
NextPageRaisesTruncates ==
    /\ wpc = "next_page"
    /\ call.st = "running"
    /\ ~LoopCondition(call.c, retries)
    /\ Outcome(call.c, retries) = "raised"
    /\ call' = [call EXCEPT !.st = "raised"]
    /\ written' = <<>>
    /\ wpc' = "failed"
    /\ UNCHANGED <<seqInputs, seqRest, discover_data, result, details, verdict,
                   pages_written, requested>>

\* discover_movies_between raises RuntimeError, which write_all_pages does
\* not catch
NextPageRaises ==
    /\ wpc = "next_page"
    /\ call.st = "running"
    /\ ~LoopCondition(call.c, retries)
    /\ Outcome(call.c, retries) = "raised"
    /\ call' = [call EXCEPT !.st = "raised"]
    /\ wpc' = "failed"
    /\ UNCHANGED <<seqInputs, seqRest, discover_data, result, details, verdict,
                   written, pages_written, requested>>

\* discover_data = discover_movies_between(..., page + 1, ...)
NextPageReturns ==
    /\ wpc = "next_page"
    /\ call.st = "running"
    /\ ~LoopCondition(call.c, retries)
    /\ Outcome(call.c, retries) = "returned"
    /\ call' = [call EXCEPT !.st = "returned"]
    /\ discover_data' = call.c.data
    /\ requested' = Append(requested, call.c.data.page)
    /\ wpc' = "while"
    /\ UNCHANGED <<seqInputs, seqRest, result, details, verdict, written,
                   pages_written>>

NextSeq ==
    \/ WritePageEnter
    \/ WhileFalse
    \/ ConfirmNoLookup
    \/ LookupStart
    \/ LookupAttemptReturns
    \/ LookupAttemptThrows
    \/ ConfirmReturns
    \/ WriteRow
    \/ SkipRow
    \/ PageDoneRequest
    \/ PageDoneReturn
    \/ NextPageAttemptReturns
    \/ NextPageAttemptThrows
    \/ NextPageRaises
    \/ NextPageReturns

SpecSequential == InitSeq /\ [][NextSeq]_vars

(***************************************************************************)
(* The worker threads of fetch_all_pages with the backoff sleep as a state *)
(* of its own (fetch_releasedates.py 239-243, 264-281).                    *)
(***************************************************************************)
\* fetch_all_pages has submitted the later pages of a slice to the executor
InitPool ==
    /\ start_date \in Days
    /\ end_date \in start_date..MaxDay
    /\ retries \in RetryBudgets
    /\ pc = "gather"
    /\ slice_start_date = start_date
    /\ slice_end_date = end_date
    /\ lte_end_date = end_date
    /\ call = NewTask(0, 0, 0)
    /\ \E tp \in 2..MaxPages :
          /\ discover_data = Response(start_date, end_date, 1, tp)
          /\ tasks = [p \in PageRange(tp) |->
                         NewTask(slice_start_date, slice_end_date, p)]
    /\ completed = <<>>
    /\ results = <<discover_data>>
    /\ batches = <<>>
    /\ DblIdle
    /\ SeqIdle
    /\ QryIdle
    /\ DayIdle

\* a sleep that holds every thread of the pool
OnCpuOneSleeper(ts, p) ==
    /\ ts[p].st = "running"
    /\ \A q \in DOMAIN ts : ts[q].st # "sleeping"

\* the thread of page p is not inside time.sleep(1), which suspends the
\* calling thread only
OnCpu(ts, p) == ts[p].st = "running"

poolRest == <<inputs, pc, slice_start_date, slice_end_date, lte_end_date,
              call, discover_data, results, batches, dblVars, seqVars,
              qryVars, dayVars>>

\* the worker of page p issues its request, which returns
PoolAttemptReturns(p) ==
    /\ workersRun
    /\ OnCpu(tasks, p)
    /\ LoopCondition(tasks[p].c, retries)
    /\ \E tp \in LaterPageTotals(discover_data) :
          tasks' = [tasks EXCEPT ![p].c = AttemptReturns(@, retries, tp)]
    /\ UNCHANGED <<poolRest, completed>>

\* the worker of page p issues its request, which throws; with budget left
\* it clears the cache and enters time.sleep(1)
PoolAttemptThrows(p) ==
    /\ workersRun
    /\ OnCpu(tasks, p)
    /\ LoopCondition(tasks[p].c, retries)
    /\ tasks[p].c.calls < FailureBound
    /\ LET c == AttemptThrows(tasks[p].c, retries)
       IN  tasks' = [tasks EXCEPT
                        ![p].c = c,
                        ![p].st = IF Len(c.waits) > Len(tasks[p].c.waits)
                                  THEN "sleeping" ELSE "running"]
    /\ UNCHANGED <<poolRest, completed>>

\* time.sleep(1) returns on the worker of page p
PoolWakes(p) ==
    /\ workersRun
    /\ tasks[p].st = "sleeping"
    /\ tasks' = [tasks EXCEPT ![p].st = "running"]
    /\ UNCHANGED <<poolRest, completed>>

\* lines 245-253 on the worker of page p: its future gets the page or the
\* RuntimeError
PoolFinishes(p) ==
    /\ workersRun
    /\ OnCpu(tasks, p)
    /\ ~LoopCondition(tasks[p].c, retries)
    /\ tasks' = [tasks EXCEPT ![p].st = Outcome(tasks[p].c, retries)]
    /\ completed' = Append(completed, p)
    /\ UNCHANGED poolRest

\* the with block is left by the exception: shutdown(wait=True) returns once
\* every worker has finished, sleepers included
PoolShutdownJoins ==
    /\ pc = "shutdown"
    /\ \A p \in DOMAIN tasks : tasks[p].st \in {"returned", "raised"}
    /\ pc' = "failed"
    /\ UNCHANGED <<inputs, slice_start_date, slice_end_date, lte_end_date,
                   call, discover_data, tasks, completed, results, batches,
                   dblVars, seqVars, qryVars, dayVars>>

NextPool ==
    \/ \E p \in DOMAIN tasks : PoolAttemptReturns(p)
    \/ \E p \in DOMAIN tasks : PoolAttemptThrows(p)
    \/ \E p \in DOMAIN tasks : PoolWakes(p)
    \/ \E p \in DOMAIN tasks : PoolFinishes(p)
    \/ GatherReturns
    \/ GatherRaises
    \/ PoolShutdownJoins

SpecPool == InitPool /\ [][NextPool]_vars

(***************************************************************************)
(* The query of discover_movies_between: download_releasedates.py 58-78,   *)
(* fetch_releasedates.py 208-228, fetch_movies.py 49-69.                   *)
(***************************************************************************)
QueryVariants == Variants \cup {"fetch_releasedates"}

\* one_of_genre_ids as the mains pass it to the two later files: a list of
\* strings; NoGenreList for None
NoGenreList == <<"None">>
GenreIdLists == {NoGenreList, <<>>, <<"28">>, <<"28", "12">>}

\* a key that is not in the params dict
AbsentKey == <<"absent">>

\* "|".join(one_of_genre_ids), as the list of the pieces of the string
RECURSIVE Join(_)
Join(ids) ==
    IF Len(ids) <= 1
    THEN ids
    ELSE <<ids[1], "|">> \o Join(Tail(ids))

\* date.isoformat()
IsoFormat(d) == <<"iso", d>>

\* the dict literal
BaseParams(s, e, p) ==
    [region |-> "US",
     gte |-> IsoFormat(s),
     lte |-> IsoFormat(e),
     sort_by |-> "primary_release_date.asc",
     page |-> p,
     runtime_gte |-> Unset,
     with_genres |-> AbsentKey]

\* `if min_runtime_mins is not None:` and, in fetch_movies.py,
\* `if min_runtime_mins:`
SetsRuntime(v, min) ==
    IF v = "fetch_movies" THEN TruthyInt(min) ELSE min # Unset

\* `if one_of_genre_ids is not None:` and, in fetch_movies.py,
\* `if one_of_genre_ids:`
EntersGenres(v, ids) ==
    IF v = "fetch_movies"
    THEN ids # NoGenreList /\ ids # <<>>
    ELSE ids # NoGenreList

\* the body of the genre branch: params['with_genres'] = "|".join(...) in
\* download_releasedates.py (70) and fetch_releasedates.py (220);
\* params['with_genres']: "|".join(...) in fetch_movies.py (61), an
\* annotation, which assigns nothing
WithGenres(v, prm, ids) ==
    IF v = "fetch_movies"
    THEN prm
    ELSE [prm EXCEPT !.with_genres = Join(ids)]

\* params as it stands when the retry loop is entered
BuildParams(v, s, e, min, ids, p) ==
    LET base == BaseParams(s, e, p)
        withRuntime == IF SetsRuntime(v, min)
                       THEN [base EXCEPT !.runtime_gte = min]
                       ELSE base
    IN  IF EntersGenres(v, ids)
        THEN WithGenres(v, withRuntime, ids)
        ELSE withRuntime

\* discover_movies_between is called
InitQuery ==
    /\ start_date \in Days
    /\ end_date \in Days
    /\ retries \in RetryBudgets
    /\ pc = "off"
    /\ slice_start_date = 0 /\ slice_end_date = 0 /\ lte_end_date = 0
    /\ \E p \in 1..MaxSeqPages : call = NewTask(start_date, end_date, p)
    /\ discover_data = None
    /\ tasks = NoTasks
    /\ completed = <<>>
    /\ results = <<>>
    /\ batches = <<>>
    /\ DblIdle
    /\ variant \in QueryVariants
    /\ min_runtime_mins \in MinRuntimes
    /\ one_of_genre_ids \in GenreIdLists
    /\ wpc = "off" /\ result = 0 /\ details = NewLookup /\ verdict = ""
    /\ written = <<>> /\ pages_written = <<>> /\ requested = <<>>
    /\ qpc = "params"
    /\ params = <<>>
    /\ sent = <<>>
    /\ DayIdle

qryRest == <<seqInputs, pc, slice_start_date, slice_end_date, lte_end_date,
             tasks, completed, results, batches, dblVars, wpc, result,
             details, verdict, written, pages_written, requested, dayVars>>

\* the params dict is built
QueryParams ==
    /\ qpc = "params"
    /\ params' = BuildParams(variant, call.c.start, call.c.end,
                             min_runtime_mins, one_of_genre_ids, call.c.page)
    /\ qpc' = "loop"
    /\ UNCHANGED <<qryRest, call, discover_data, sent>>

\* one iteration of the retry loop, discover_movies(params) returning
QueryAttemptReturns ==
    /\ qpc = "loop"
    /\ LoopCondition(call.c, retries)
    /\ \E tp \in 1..MaxSeqPages :
          call' = [call EXCEPT !.c = AttemptReturns(@, retries, tp)]
    /\ sent' = Append(sent, params)
    /\ UNCHANGED <<qryRest, discover_data, qpc, params>>

\* one iteration of the retry loop, discover_movies(params) throwing
QueryAttemptThrows ==
    /\ qpc = "loop"
    /\ LoopCondition(call.c, retries)
    /\ call.c.calls < FailureBound
    /\ call' = [call EXCEPT !.c = AttemptThrows(@, retries)]
    /\ sent' = Append(sent, params)
    /\ UNCHANGED <<qryRest, discover_data, qpc, params>>

\* the loop is left without data: RuntimeError
QueryRaises ==
    /\ qpc = "loop"
    /\ ~LoopCondition(call.c, retries)
    /\ Outcome(call.c, retries) = "raised"
    /\ call' = [call EXCEPT !.st = "raised"]
    /\ qpc' = "raised"
    /\ UNCHANGED <<qryRest, discover_data, params, sent>>

\* return data
QueryReturns ==
    /\ qpc = "loop"
    /\ ~LoopCondition(call.c, retries)
    /\ Outcome(call.c, retries) = "returned"
    /\ call' = [call EXCEPT !.st = "returned"]
    /\ discover_data' = call.c.data
    /\ qpc' = "returned"
    /\ UNCHANGED <<qryRest, params, sent>>

NextQuery ==
    \/ QueryParams
    \/ QueryAttemptReturns
    \/ QueryAttemptThrows
    \/ QueryRaises
    \/ QueryReturns

SpecQuery == InitQuery /\ [][NextQuery]_vars

(***************************************************************************)
(* days_until_num_movies (days_to_double_movies.py 12-43): the search for  *)
(* the end date at which the count since start_date reaches num_movies.    *)
(***************************************************************************)
\* the end dates the service is asked about
ServiceDates == 0..(MaxToday + 2)

\* the services: total_results as a fixed function of release_date.lte,
\* never lower for a later end date; level[c] is the first end date with c
\* results or more
Services ==
    LET levels == {u \in [1..MaxCount -> 0..(MaxToday + 3)] :
                      \A c \in 1..(MaxCount - 1) : u[c] <= u[c + 1]}
    IN  {[e \in ServiceDates |->
             Cardinality({c \in 1..MaxCount : level[c] <= e})] :
         level \in levels}

\* the params dict: release_date.gte and release_date.lte (region and
\* runtime.gte never change)
DaysParams(s, e) == [gte |-> s, lte |-> e]

\* a loop that stops one day early
WhileDaysAboveOneDay(total, n, d) == total # n /\ d > 1

\* line 28: data.total_results != num_movies and timediff >= timedelta(days=1)
WhileDays(total, n, d) == total # n /\ d >= 1

\* line 29: timedelta(days=math.floor(timediff.days / 2))
HalfDays(d) == d \div 2

\* a way back that adds two days
BackByHalfTwoDays(d) == d + 2

\* line 36: timediff + timedelta(days=1)
BackByHalf(d) == d + 1

\* days_until_num_movies(start_date, num_movies) is called
InitDays ==
    /\ start_date \in 0..(MaxToday + 1)
    /\ end_date = 0
    /\ retries = 0
    /\ pc = "off"
    /\ slice_start_date = 0 /\ slice_end_date = 0 /\ lte_end_date = 0
    /\ call = NewTask(0, 0, 0)
    /\ discover_data = None
    /\ tasks = NoTasks
    /\ completed = <<>>
    /\ results = <<>>
    /\ batches = <<>>
    /\ DblIdle
    /\ SeqIdle
    /\ QryIdle
    /\ today \in (MaxToday - 1)..MaxToday
    /\ num_movies \in 0..(MaxCount + 1)
    /\ service \in Services
    /\ npc = "start"
    /\ total_results = 0
    /\ timediff = 0
    /\ days = 0

dayRest == <<start_date, retries, pc, slice_start_date, slice_end_date,
             lte_end_date, call, discover_data, tasks, completed, results,
             batches, dblVars, seqVars, qpc, today, num_movies, service>>

\* lines 13-20: end_date = date.today() and the first query
DaysFirstQuery ==
    /\ npc = "start"
    /\ end_date' = today
    /\ params' = DaysParams(start_date, end_date')
    /\ total_results' = service[params'.lte]
    /\ sent' = Append(sent, params')
    /\ npc' = "check"
    /\ UNCHANGED <<dayRest, timediff, days>>

\* lines 22-25: too few movies up to today, return None
DaysReturnNone ==
    /\ npc = "check"
    /\ total_results < num_movies
    /\ npc' = "none"
    /\ UNCHANGED <<dayRest, end_date, params, sent, total_results, timediff,
                   days>>

\* line 27: timediff = end_date - start_date
DaysEnterLoop ==
    /\ npc = "check"
    /\ ~(total_results < num_movies)
    /\ timediff' = end_date - start_date
    /\ npc' = "loop"
    /\ UNCHANGED <<dayRest, end_date, params, sent, total_results, days>>

\* lines 28-33 and 39-41: too many results, the end date goes back by half
DaysTooMany ==
    /\ npc = "loop"
    /\ WhileDays(total_results, num_movies, timediff)
    /\ total_results > num_movies
    /\ timediff' = HalfDays(timediff)
    /\ end_date' = end_date - timediff'
    /\ params' = [params EXCEPT !.lte = end_date']
    /\ total_results' = service[params'.lte]
    /\ sent' = Append(sent, params')
    /\ UNCHANGED <<dayRest, npc, days>>

\* lines 28-29, 34-37 and 39-41: too few results, the end date goes forward
\* by half and a day
DaysTooFew ==
    /\ npc = "loop"
    /\ WhileDays(total_results, num_movies, timediff)
    /\ ~(total_results > num_movies)
    /\ total_results < num_movies
    /\ timediff' = BackByHalf(HalfDays(timediff))
    /\ end_date' = end_date + timediff'
    /\ params' = [params EXCEPT !.lte = end_date']
    /\ total_results' = service[params'.lte]
    /\ sent' = Append(sent, params')
    /\ UNCHANGED <<dayRest, npc, days>>

\* line 43: return end_date - start_date
DaysReturn ==
    /\ npc = "loop"
    /\ ~WhileDays(total_results, num_movies, timediff)
    /\ days' = end_date - start_date
    /\ npc' = "returned"
    /\ UNCHANGED <<dayRest, end_date, params, sent, total_results, timediff>>

NextDays ==
    \/ DaysFirstQuery
    \/ DaysReturnNone
    \/ DaysEnterLoop
    \/ DaysTooMany
    \/ DaysTooFew
    \/ DaysReturn

\* one thread runs the function and the service answers every query
SpecDays == InitDays /\ [][NextDays]_vars /\ WF_vars(NextDays)

(***************************************************************************)
(* Properties of the sequential variant.                                   *)
(***************************************************************************)
\* the ids written so far
WrittenIds == {written[i] : i \in 1..Len(written)}

\* the lookup of the current record was tried and failed on every attempt
\* of a finite budget
LookupExhausted ==
    /\ retries # inf
    /\ details.failed >= 1
    /\ details.failed = retries
    /\ ~details.found

\* C17: a detail lookup that fails on every attempt of a finite budget is
\* not fatal: confirm_details returns False and raises nothing, write_page
\* leaves out that record and only moves on to the next one, every record
\* of a page is taken in turn, and a run that returns has handled every
\* record of every page; only discover_movies_between ends the run.
C17_LookupFailureNotFatal ==
    /\ [](wpc = "returned" /\ LookupExhausted => verdict = "False")
    /\ [](wpc = "failed" => call.st = "raised")
    /\ [][wpc = "lookup" => wpc' \in {"lookup", "returned"}]_vars
    /\ [][wpc = "returned" /\ LookupExhausted =>
             /\ written' = written
             /\ result' = result + 1
             /\ wpc' = "for"
             /\ pages_written' = pages_written
             /\ discover_data' = discover_data]_vars
    /\ [][result' # result =>
             \/ wpc = "returned" /\ result' = result + 1
             \/ wpc = "while" /\ result' = 1]_vars
    /\ [](wpc = "for" /\ result <= Len(Results(discover_data)) =>
             ENABLED (ConfirmNoLookup \/ LookupStart))
    /\ [](wpc = "done" /\ discover_data.total_pages >= 1 =>
             /\ Len(pages_written) = discover_data.total_pages
             /\ result = Len(Results(discover_data)) + 1)

\* C17 witness: with a filter that every movie found passes, a run over two
\* pages has returned having written every record but the second of page 1,
\* whose lookup therefore failed on every attempt
C17_Witness ==
    /\ variant = "download_releasedates"
    /\ min_runtime_mins = 0
    /\ one_of_genre_ids = NoGenres
    /\ retries # inf
    /\ wpc = "done"
    /\ pages_written = <<1, 2>>
    /\ \A i \in 1..(2 * MaxResults) : i \in WrittenIds <=> i # 2

\* what C18 says confirm_details returns for a movie whose lookup succeeded
MatchesFilters(det, min, ids) ==
    /\ min = Unset \/ det.runtime >= min
    /\ ids = NoGenres \/ det.genres \cap ids # {}

\* C18: confirm_details returns True without a remote call when both
\* filters are None; otherwise, when the lookup succeeded, it returns True
\* exactly if (min_runtime_mins is None or runtime >= min_runtime_mins) and
\* (one_of_genre_ids is None or a genre of the movie is in it); write_page
\* writes the record exactly if confirm_details returned True.
C18_ConfirmDetails ==
    /\ [](wpc = "returned" /\ min_runtime_mins = Unset
                           /\ one_of_genre_ids = NoGenres =>
             /\ verdict = "True"
             /\ details.calls = 0)
    /\ [](wpc = "returned" /\ details.found
                           /\ ~(min_runtime_mins = Unset
                                /\ one_of_genre_ids = NoGenres) =>
             (verdict = "True" <=>
                 MatchesFilters(details, min_runtime_mins, one_of_genre_ids)))
    /\ [][wpc = "returned" =>
             /\ verdict = "True" =>
                   written' = Append(written, Results(discover_data)[result])
             /\ verdict # "True" => written' = written]_vars
    /\ [][written' # written => wpc = "returned"]_vars

\* the pages m..n in ascending order
PagesFromTo(m, n) == [i \in 1..(n - m + 1) |-> m + i - 1]

Span == lte_end_date - slice_start_date

\* C21: every iteration of the bisection loop (taken only while total_pages
\* is over 500) strictly reduces the span end_date - start_date, for every
\* span, a span of one day and a span of zero days included.
C21_BisectionShrinks ==
    [][pc = "check" /\ pc' = "discover" => Span' < Span]_vars

\* C22: the loop body runs exactly if cursor < end_date; it calls the range
\* discoverer on [cursor, end_date] with the caller's end_date, which never
\* changes; when the discoverer returns, the page collector is called
\* exactly if total_pages > 1, and then for the slice [cursor, effective
\* end date]; afterwards the cursor is the day after the effective end date.
C22_OrchestratorIteration ==
    /\ [][end_date' = end_date /\ start_date' = start_date]_vars
    /\ [][pc = "loop" =>
             /\ pc' = "discover" <=> slice_start_date < end_date
             /\ pc' = "done" <=> ~(slice_start_date < end_date)
             /\ pc' = "discover" =>
                   /\ call' = NewTask(slice_start_date, end_date, 1)
                   /\ lte_end_date' = end_date]_vars
    /\ [][pc = "check" /\ pc' # "discover" =>
             /\ pc' = "gather" <=> discover_data.total_pages > 1
             /\ pc' = "report" <=> ~(discover_data.total_pages > 1)
             /\ slice_end_date' = lte_end_date
             /\ pc' = "report" => tasks' = NoTasks
             /\ \A p \in DOMAIN tasks' :
                   /\ tasks'[p].c.start = slice_start_date
                   /\ tasks'[p].c.end = lte_end_date]_vars
    /\ [][DOMAIN tasks' # DOMAIN tasks /\ tasks' # NoTasks => pc = "check"]_vars
    /\ [][slice_start_date' # slice_start_date =>
             /\ pc = "report"
             /\ slice_start_date' = slice_end_date + 1
             /\ slice_end_date = lte_end_date]_vars

\* C22 witness: after a slice that bisection ended before end_date, the
\* discoverer is called for the next slice with the caller's end_date
C22_Witness ==
    /\ pc = "discover"
    /\ Len(batches) >= 1
    /\ slice_end_date < end_date
    /\ lte_end_date = end_date
    /\ call = NewTask(slice_end_date + 1, end_date, 1)

\* the slices the loop has begun: those reported and the one in progress
SlicesBegun ==
    Len(batches) + (IF pc \in {"discover", "check", "gather", "shutdown",
                               "report"} THEN 1 ELSE 0)

\* C23: the cursor strictly increases on every iteration, the effective end
\* date being at or after the cursor and at or before end_date; so the loop
\* begins at most end_date - start_date slices (none when start_date is
\* after end_date), and a run stops only returned or failed: as long as the
\* calls it makes return, it goes on to its end.
C23_CursorAdvances ==
    /\ [][slice_start_date' # slice_start_date =>
             /\ slice_start_date' > slice_start_date
             /\ slice_start_date <= slice_end_date
             /\ slice_end_date <= end_date]_vars
    /\ [](start_date <= slice_start_date)
    /\ [](start_date <= end_date =>
             /\ SlicesBegun <= end_date - start_date
             /\ slice_start_date <= end_date + 1
             /\ Len(batches) <= slice_start_date - start_date)
    /\ [](start_date > end_date => SlicesBegun = 0)
    /\ [](pc \in {"done", "failed"} \/ ENABLED Next)
    /\ [](pc = "done" => ~(slice_start_date < end_date))

\* C23 witness: a run over a range of two days or more has returned after
\* as many slices as the range has days
C23_Witness ==
    /\ pc = "done"
    /\ end_date - start_date >= 2
    /\ Len(batches) = end_date - start_date

\* fetch_all_pages is running
Collecting == pc \in {"gather", "shutdown"}

\* C24: fetch_all_pages is left, by return or by the error of a failed page
\* fetch, only when every submitted page fetch has run to its end (returned
\* or exhausted its retries); when it is left by the error, the pages the
\* other fetches returned are not added to the batch.
C24_CollectionJoins ==
    /\ [][Collecting /\ ~Collecting' =>
             /\ \A p \in DOMAIN tasks : tasks[p].st \in {"returned", "raised"}
             /\ Len(completed) = Cardinality(DOMAIN tasks)
             /\ tasks' = tasks
             /\ pc' = "failed" <=> \E p \in DOMAIN tasks : tasks[p].st = "raised"
             /\ pc' = "report" <=> \A p \in DOMAIN tasks : tasks[p].st = "returned"
             /\ pc' = "failed" => results' = <<discover_data>>]_vars
    /\ [][pc = "shutdown" => results' = results /\ pc' \in {"shutdown", "failed"}]_vars
    /\ [](pc = "shutdown" => results = <<discover_data>>)

\* C24 witness: the run has failed by a page fetch that finished first, and
\* another page fetch of the slice ran on and returned its page after it
C24_Witness ==
    /\ pc = "failed"
    /\ Len(completed) = 2
    /\ tasks[completed[1]].st = "raised"
    /\ tasks[completed[2]].st = "returned"
    /\ tasks[completed[2]].c.failed >= 1
    /\ results = <<discover_data>>

(***************************************************************************)
(* Further properties of calc_doublingdates.                               *)
(***************************************************************************)
\* C25: the trailing cursor never decreases and is never reset, it moves
\* only by one step of the while loop at a time; an entry that has its
\* doubling_date keeps it, and the entries that have one are exactly those
\* before the cursor; the cursor never passes the entries, of which there
\* is one per distinct date, so the cursor advances at most as often as
\* there are distinct dates.
C25_MonotoneCursor ==
    /\ [][/\ cursor' >= cursor
          /\ cursor' # cursor => cursor' = cursor + 1 /\ dpc = "while"]_vars
    /\ [][\A i \in 1..Len(entries) :
             entries[i].doubling_date # NaN =>
                 /\ i <= Len(entries')
                 /\ entries'[i].doubling_date = entries[i].doubling_date]_vars
    /\ [](\A i \in 1..Len(entries) :
             entries[i].doubling_date # NaN <=> i <= cursor)
    /\ [](cursor <= Len(entries))
    /\ [](dpc # "count" =>
             /\ Len(entries) = k
             /\ k <= Len(items)
             /\ Len(items) = Cardinality(DatesPresent)
             /\ cursor <= Cardinality(DatesPresent))

\* C25 witness: a run has returned with the cursor advanced in two different
\* outer iterations
C25_Witness ==
    /\ dpc = "written"
    /\ cursor >= 2
    /\ entries[1].doubling_date < entries[2].doubling_date

\* C26: daily counts being >= 1, at every evaluation of the inner loop
\* condition the cursor (0-based) is at most the index of the entry just
\* appended, so entries[cursor] exists; and the doubling date of an entry is
\* strictly later than its own date.
C26_CursorInRange ==
    /\ \A d \in DOMAIN date_counter : date_counter[d] >= 1
    /\ \A i \in 1..Len(entries) : entries[i].count >= 1 /\ entries[i].sum >= 1
    /\ dpc = "while" =>
          /\ Len(entries) >= 1
          /\ 0 <= cursor
          /\ cursor <= Len(entries) - 1
    /\ \A i \in 1..Len(entries) :
          entries[i].doubling_date # NaN =>
              entries[i].doubling_date > entries[i].release_date

\* C26 witness: the inner loop condition is evaluated with the cursor on the
\* entry just appended, the entries before it having doubled
C26_Witness ==
    /\ dpc = "while"
    /\ Len(entries) >= 2
    /\ cursor = Len(entries) - 1
    /\ entries[cursor].doubling_date = entries[Len(entries)].release_date

\* C27: in the entries calc_doublingdates returns, the doubling dates are
\* non-decreasing in entry order, and the entries without a doubling date
\* form a suffix that contains the last entry.
C27_DoublingDatesOrdered ==
    dpc = "written" =>
        /\ \A i \in 1..Len(entries) : \A j \in i..Len(entries) :
              entries[i].doubling_date # NaN /\ entries[j].doubling_date # NaN =>
                  entries[i].doubling_date <= entries[j].doubling_date
        /\ \A i \in 1..Len(entries) : \A j \in i..Len(entries) :
              entries[i].doubling_date = NaN => entries[j].doubling_date = NaN
        /\ Len(entries) >= 1 => entries[Len(entries)].doubling_date = NaN

\* C27 witness: the entries returned have two different doubling dates and
\* then a suffix of two entries without one
C27_Witness ==
    /\ dpc = "written"
    /\ Len(entries) = 4
    /\ entries[1].doubling_date # NaN
    /\ entries[2].doubling_date > entries[1].doubling_date
    /\ entries[3].doubling_date = NaN
    /\ entries[4].doubling_date = NaN

(***************************************************************************)
(* Further properties of the sequential variant.                           *)
(***************************************************************************)
\* C28: write_all_pages requests page k + 1 only when write_page has gone
\* through every record of page k, and no row is ever taken back; so when
\* the fetch of page k + 1 exhausts its retries, pages 1..k have been
\* written (all their records when no filter is set), and the run ends
\* there with those rows left in the file.
C28_WritesBeforeNextRequest ==
    /\ [][wpc' = "next_page" /\ wpc # "next_page" =>
             /\ wpc = "for"
             /\ result = Len(Results(discover_data)) + 1
             /\ pages_written = PagesFromTo(1, discover_data.page)
             /\ call'.c.page = discover_data.page + 1
             /\ written' = written]_vars
    /\ [][/\ Len(written') >= Len(written)
          /\ \A i \in 1..Len(written) : written'[i] = written[i]]_vars
    /\ [](wpc \in {"next_page", "failed"} =>
             /\ call.c.page = discover_data.page + 1
             /\ pages_written = PagesFromTo(1, discover_data.page)
             /\ \A i \in 1..Len(written) :
                   written[i] <= discover_data.page * MaxResults
             /\ min_runtime_mins = Unset /\ one_of_genre_ids = NoGenres =>
                   written = PagesFromTo(1, discover_data.page * MaxResults))
    /\ [](wpc = "failed" => call.st = "raised" /\ call.c.data = None)
    /\ [][wpc # "failed"]_vars

\* C28 witness: download_releasedates.py without filters has failed on the
\* fetch of page 2 with the rows of page 1 written
C28_Witness ==
    /\ variant = "download_releasedates"
    /\ min_runtime_mins = Unset
    /\ one_of_genre_ids = NoGenres
    /\ wpc = "failed"
    /\ retries >= 1
    /\ call.c.failed = retries
    /\ call.c.page = 2
    /\ written = PagesFromTo(1, MaxResults)

(***************************************************************************)
(* Properties of the query of discover_movies_between.                     *)
(***************************************************************************)
\* the ids listed in a params value of with_genres
IdsIn(value) == {value[i] : i \in 1..Len(value)} \ {"|"}

\* C29: every query discover_movies_between issues, in each of the three
\* files, carries the start and end date and the page of the call, the
\* minimum runtime whenever min_runtime_mins is given (not None), and the
\* genre ids whenever one_of_genre_ids is given (not None); every retry of
\* the call sends the same parameters.
C29_QueryCarriesFilters ==
    \A i \in 1..Len(sent) :
        /\ sent[i].gte = IsoFormat(call.c.start)
        /\ sent[i].lte = IsoFormat(call.c.end)
        /\ sent[i].page = call.c.page
        /\ min_runtime_mins # Unset => sent[i].runtime_gte = min_runtime_mins
        /\ one_of_genre_ids # NoGenreList =>
              /\ sent[i].with_genres # AbsentKey
              /\ IdsIn(sent[i].with_genres)
                    = {one_of_genre_ids[n] : n \in 1..Len(one_of_genre_ids)}
        /\ sent[i] = sent[1]

LoopStep == npc = "loop" /\ sent' # sent

\* the end dates asked about, in order
Asked == [i \in 1..Len(sent) |-> sent[i].lte]

\* C31: with a service whose total_results is a fixed function of the end
\* date, never lower for a later end date, days_until_num_movies returns,
\* for every start_date and num_movies: timediff never increases inside the
\* loop, every "too many" step strictly decreases it, and every "too few"
\* step is taken at an end date before today and moves the end date
\* forward, so that at most today - end_date of them follow one another.
C31_Terminates ==
    /\ <>(npc \in {"none", "returned"})
    /\ [][npc = "loop" => timediff' <= timediff]_vars
    /\ [][(LoopStep /\ total_results > num_movies)
             => timediff' < timediff]_vars
    /\ [][(LoopStep /\ total_results < num_movies)
             => (end_date < today /\ end_date' > end_date)]_vars

\* the function has returned after going back and forward
C31_Witness ==
    /\ npc = "returned"
    /\ \E i \in 1..(Len(sent) - 1) : Asked[i + 1] < Asked[i]
    /\ \E i \in 1..(Len(sent) - 1) : Asked[i + 1] > Asked[i]

\* the function has returned, None or a timedelta
DaysDone == npc \in {"none", "returned"}

\* C32: days_until_num_movies returns None exactly if the service reports
\* fewer than num_movies results for the end date today, and then it has
\* made exactly one query; otherwise the end date start_date + days of the
\* timedelta it returns is one for which the service reports num_movies
\* results or more.
C32_ReturnedEndDate ==
    /\ npc = "none" => Len(sent) = 1 /\ Asked[1] = today
    /\ DaysDone => (npc = "none" <=> service[today] < num_movies)
    /\ npc = "returned" => service[start_date + days] >= num_movies

\* the function has returned an end date before today after a step forward
C32_Witness ==
    /\ npc = "returned"
    /\ start_date + days < today
    /\ \E i \in 1..(Len(sent) - 1) : Asked[i + 1] > Asked[i]

====
